---- MODULE Spec2Model ----
(***************************************************************************)
(* Model of guppy's project-creation service (create-project.service) and  *)
(* of the TerminalOutput component.                                        *)
(*                                                                         *)
(* JavaScript strings are sequences of one-character strings, so that the  *)
(* conversions the code applies to them (slug, toLowerCase, JSON.parse,    *)
(* JSON.stringify, the regular expressions of TerminalOutput) are computed *)
(* and not assumed.  A JSON text is a sequence of lexical tokens.          *)
(***************************************************************************)
EXTENDS Integers, Sequences, FiniteSets, TLC

(***************************************************************************)
(* Bounds of the model.                                                    *)
(***************************************************************************)
MaxChunks == 2     \* chunks a child process emits on each output stream
MaxClock == 1      \* values Date.now() ranges over: 0..MaxClock
MaxPathLen == 2    \* length of the paths passed to getBuildInstructions directly
MaxLogLen == 3     \* length of a log given to TerminalOutput

\* createProject invocations: one alone, or two in flight at the same time
Invocations == {1, 2}
Alone == {1}

(***************************************************************************)
(* State.                                                                  *)
(***************************************************************************)
VARIABLES
  DISABLE,        \* the fixture toggle of the build
  win32,          \* the platform of the host
  parentExists,   \* fs: the directory defaultParentPath exists
  files,          \* fs: manifest path -> [exists, text]
  now,            \* the last value Date.now() returned
  pc,             \* per invocation: where it stands
  args,           \* per invocation: { projectName, projectType, projectIcon }
  trace,          \* per invocation: callbacks invoked and system calls issued, in order
  stdoutSent,     \* per invocation: chunks the child wrote on stdout
  stderrSent,     \* per invocation: chunks the child wrote on stderr
  stdoutRead,     \* per invocation: stdout chunks delivered as 'data' events
  stderrRead,     \* per invocation: stderr chunks delivered as 'data' events
  exitCode,       \* per invocation: exit code of the child, -1 before it exits
  readResult,     \* per invocation: (err, data) of fs.readFile, once it is done
  writeResult,    \* per invocation: (err) of fs.writeFile, once it is done
  packageJson,    \* per invocation: the closure's packageJson
  prettyPrintedPackageJson, \* per invocation: the closure's prettyPrintedPackageJson
  buildCall,      \* the last direct call of getBuildInstructions and its outcome
  colors,         \* project name -> the colors direct calls of getColorForProject returned
  log,            \* TerminalOutput: the log being rendered
  converterInput  \* TerminalOutput: the text handed to convert.toHtml for that log

(***************************************************************************)
(* Strings.                                                                *)
(***************************************************************************)
Upper == <<"A", "M", "B">>
Lower == <<"a", "m", "b">>
LowerOnly == {"c", "d", "e", "g", "k", "n", "o", "p", "r", "s", "t", "u",
              "v", "x", "y", "i", "l"}
Digits == {"0", "1"}

RECURSIVE IndexOf(_, _, _)
IndexOf(s, c, i) ==
  IF i > Len(s) THEN 0 ELSE IF s[i] = c THEN i ELSE IndexOf(s, c, i + 1)

\* String.prototype.toLowerCase, one character
LowerChar(c) ==
  LET i == IndexOf(Upper, c, 1) IN IF i = 0 THEN c ELSE Lower[i]

toLowerCase(s) == [i \in 1..Len(s) |-> LowerChar(s[i])]

IsWordChar(c) ==
  \/ IndexOf(Upper, c, 1) # 0
  \/ IndexOf(Lower, c, 1) # 0
  \/ c \in LowerOnly
  \/ c \in Digits

IsSpace(c) == c = " "

\* slug(): characters outside the allowed set are dropped, the result is
\* trimmed and every run of whitespace becomes one "-".
RECURSIVE SlugFrom(_, _, _, _)
SlugFrom(s, i, acc, gap) ==
  IF i > Len(s) THEN acc
  ELSE IF IsSpace(s[i]) \/ s[i] = "-"
       THEN SlugFrom(s, i + 1, acc, acc # <<>>)
       ELSE IF IsWordChar(s[i])
            THEN SlugFrom(s, i + 1,
                          (IF gap THEN Append(acc, "-") ELSE acc) \o <<s[i]>>,
                          FALSE)
            ELSE SlugFrom(s, i + 1, acc, gap)

slug(s) == SlugFrom(s, 1, <<>>, FALSE)

\* const id = slug(projectName).toLowerCase()
ProjectId(projectName) == toLowerCase(slug(projectName))

(***************************************************************************)
(* JSON.  A JavaScript value is a record [t, s, n, o]: a string (s), a     *)
(* number (n) or an object (o: its members [k, v] in insertion order).     *)
(* A text is a sequence of tokens [t, s, n]: punctuation, string, number   *)
(* or white space (a line break followed by n spaces).                     *)
(***************************************************************************)
StrV(s) == [t |-> "str", s |-> s, n |-> 0, o |-> <<>>]
NumV(n) == [t |-> "num", s |-> <<>>, n |-> n, o |-> <<>>]
ObjV(o) == [t |-> "obj", s |-> <<>>, n |-> 0, o |-> o]

Tok(t) == [t |-> t, s |-> <<>>, n |-> 0]
StrTok(s) == [t |-> "str", s |-> s, n |-> 0]
NumTok(n) == [t |-> "num", s |-> <<>>, n |-> n]
WsTok(n) == [t |-> "ws", s |-> <<>>, n |-> n]

RECURSIVE KeyIndex(_, _, _)
KeyIndex(o, k, i) ==
  IF i > Len(o) THEN 0 ELSE IF o[i].k = k THEN i ELSE KeyIndex(o, k, i + 1)

HasKey(v, k) == v.t = "obj" /\ KeyIndex(v.o, k, 1) # 0

Get(v, k) == v.o[KeyIndex(v.o, k, 1)].v

\* obj[k] = x: an existing key keeps its place, a new key is appended
SetMember(o, k, x) ==
  LET i == KeyIndex(o, k, 1) IN
  IF i = 0 THEN Append(o, [k |-> k, v |-> x])
  ELSE [o EXCEPT ![i] = [k |-> k, v |-> x]]

SetProp(v, k, x) == ObjV(SetMember(v.o, k, x))

\* JSON.stringify(value, null, 2)
RECURSIVE Stringify(_, _)
RECURSIVE StringifyMembers(_, _, _)
Stringify(v, indent) ==
  IF v.t = "str" THEN <<StrTok(v.s)>>
  ELSE IF v.t = "num" THEN <<NumTok(v.n)>>
  ELSE IF v.o = <<>> THEN <<Tok("{"), Tok("}")>>
  ELSE <<Tok("{")>> \o StringifyMembers(v.o, 1, indent + 2)
         \o <<WsTok(indent), Tok("}")>>

StringifyMembers(o, i, indent) ==
  IF i > Len(o) THEN <<>>
  ELSE <<WsTok(indent), StrTok(o[i].k), Tok(":")>>
         \o Stringify(o[i].v, indent)
         \o (IF i < Len(o) THEN <<Tok(",")>> ELSE <<>>)
         \o StringifyMembers(o, i + 1, indent)

JSONstringify(v) == Stringify(v, 0)

\* JSON.parse: a result [ok, val, pos]; ok = FALSE is a SyntaxError
ParseFail == [ok |-> FALSE, val |-> ObjV(<<>>), pos |-> 0]

SkipWs(text) == SelectSeq(text, LAMBDA tk : tk.t # "ws")

RECURSIVE ParseValue(_, _)
RECURSIVE ParseMembers(_, _, _)
RECURSIVE ParseAfterValue(_, _, _, _)
ParseValue(toks, p) ==
  IF p > Len(toks) THEN ParseFail
  ELSE IF toks[p].t = "str" THEN [ok |-> TRUE, val |-> StrV(toks[p].s), pos |-> p + 1]
  ELSE IF toks[p].t = "num" THEN [ok |-> TRUE, val |-> NumV(toks[p].n), pos |-> p + 1]
  ELSE IF toks[p].t = "{"
       THEN IF p + 1 <= Len(toks) /\ toks[p + 1].t = "}"
            THEN [ok |-> TRUE, val |-> ObjV(<<>>), pos |-> p + 2]
            ELSE ParseMembers(toks, p + 1, <<>>)
  ELSE ParseFail

ParseMembers(toks, p, acc) ==
  IF p + 1 > Len(toks) \/ toks[p].t # "str" \/ toks[p + 1].t # ":" THEN ParseFail
  ELSE \* the value is parsed once, then the member is added
       CHOOSE res \in { ParseAfterValue(toks, toks[p].s, acc, r) :
                          r \in {ParseValue(toks, p + 2)} } : TRUE

ParseAfterValue(toks, key, acc, r) ==
  IF ~r.ok \/ r.pos > Len(toks) THEN ParseFail
  ELSE IF toks[r.pos].t = "}"
       THEN [ok |-> TRUE, val |-> ObjV(SetMember(acc, key, r.val)), pos |-> r.pos + 1]
       ELSE IF toks[r.pos].t = ","
            THEN ParseMembers(toks, r.pos + 1, SetMember(acc, key, r.val))
            ELSE ParseFail

ParseDocument(toks) ==
  CHOOSE res \in { IF r.ok /\ r.pos = Len(toks) + 1 THEN r ELSE ParseFail :
                     r \in {ParseValue(toks, 1)} } : TRUE

JSONparse(text) ==
  CHOOSE res \in { ParseDocument(toks) : toks \in {SkipWs(text)} } : TRUE

(***************************************************************************)
(* String literals of the program.                                         *)
(***************************************************************************)
S_name == <<"n", "a", "m", "e">>
S_guppy == <<"g", "u", "p", "p", "y">>
S_id == <<"i", "d">>
S_type == <<"t", "y", "p", "e">>
S_icon == <<"i", "c", "o", "n">>
S_color == <<"c", "o", "l", "o", "r">>
S_createdAt == <<"c", "r", "e", "a", "t", "e", "d", "A", "t">>
S_packageJson == <<"p", "a", "c", "k", "a", "g", "e", ".", "j", "s", "o", "n">>
S_npx == <<"n", "p", "x">>
S_cmd == <<".", "c", "m", "d">>
S_new == <<"n", "e", "w">>
S_createReactApp ==
  <<"c", "r", "e", "a", "t", "e", "-", "r", "e", "a", "c", "t", "-", "a", "p", "p">>
S_gatsby == <<"g", "a", "t", "s", "b", "y">>
S_vue == <<"v", "u", "e">>

\* the ProjectType enum, and a value outside it
ProjectTypes == {S_createReactApp, S_gatsby}
TypeInputs == ProjectTypes \cup {S_vue}

\* project names a caller passes; the first two have the same slug
NameInputs == { <<"M", "y", " ", "A", "p", "p">>,
                <<"m", "y", " ", " ", "a", "p", "p", "!">>,
                <<"B", "l", "o", "g">> }
IconInputs == { <<"x">> }

\* child_process chunks and exit codes
StdoutChunks == <<"out-1", "out-2", "out-3", "out-4">>
StderrChunks == <<"err-1", "err-2", "err-3", "err-4">>
ExitCodes == {0, 1}

\* defaultParentPath (reducers/paths.reducer)
defaultParentPath == <<"g", "u", "p", "p", "y">>

\* path.join(p, segment)
PathJoin(p, segment) == p \o <<"/">> \o segment

\* formatCommandForPlatform(command) (platform.service)
formatCommandForPlatform(command, isWin32) ==
  IF isWin32 THEN command \o S_cmd ELSE command

getBuildInstructions_GatsbyNoNew(projectType, path, isWin32) ==
  LET command == formatCommandForPlatform(S_npx, isWin32) IN
  IF projectType = S_createReactApp
  THEN [threw |-> FALSE, instructions |-> <<command, S_createReactApp, path>>]
  ELSE IF projectType = S_gatsby
  THEN [threw |-> FALSE, instructions |-> <<command, S_gatsby, path>>]
  ELSE [threw |-> TRUE, instructions |-> <<>>]

getBuildInstructions_NoDefault(projectType, path, isWin32) ==
  LET command == formatCommandForPlatform(S_npx, isWin32) IN
  IF projectType = S_gatsby
  THEN [threw |-> FALSE, instructions |-> <<command, S_gatsby, S_new, path>>]
  ELSE [threw |-> FALSE, instructions |-> <<command, S_createReactApp, path>>]

\* getBuildInstructions: [threw, instructions]
getBuildInstructions(projectType, path, isWin32) ==
  LET command == formatCommandForPlatform(S_npx, isWin32) IN
  IF projectType = S_createReactApp
  THEN [threw |-> FALSE, instructions |-> <<command, S_createReactApp, path>>]
  ELSE IF projectType = S_gatsby
  THEN [threw |-> FALSE, instructions |-> <<command, S_gatsby, S_new, path>>]
  ELSE [threw |-> TRUE, instructions |-> <<>>]

\* possibleProjectColors: COLORS.<name>[700], eight palette entries
possibleProjectColors ==
  << <<"hotPink">>, <<"pink">>, <<"red">>, <<"orange">>,
     <<"green">>, <<"teal">>, <<"violet">>, <<"purple">> >>

Alphabet == <<" ", "!", "-", "0", "1", "A", "B", "M", "a", "b", "c", "d", "e", "g",
              "i", "k", "l", "m", "n", "o", "p", "r", "s", "t", "u", "v", "x", "y">>

CharCode(c) == IndexOf(Alphabet, c, 1)

\* random.create(seed): the generator's state after seeding with a string
RECURSIVE SeedHash(_, _, _)
SeedHash(s, i, h) ==
  IF i > Len(s) THEN h ELSE SeedHash(s, i + 1, (h * 31 + CharCode(s[i])) % 65536)

\* random.create(seed).range(n)
RandomRange(seed, n) == SeedHash(seed, 1, 7) % n

getColorForProject_SharedGenerator(projectName) ==
  LET n == Len(possibleProjectColors)
      draws == Cardinality({i \in Invocations : packageJson[i].o # <<>>})
                 + Cardinality(UNION {colors[name] : name \in DOMAIN colors})
  IN possibleProjectColors[((RandomRange(projectName, n) + draws) % n) + 1]

getColorForProject(projectName) ==
  possibleProjectColors[RandomRange(projectName, Len(possibleProjectColors)) + 1]

\* FAKE_CRA_PROJECT (create-project.fixtures)
FAKE_CRA_PROJECT ==
  ObjV(<< [k |-> S_name, v |-> StrV(<<"f", "a", "k", "e">>)],
          [k |-> S_guppy, v |-> ObjV(<< [k |-> S_id, v |-> StrV(<<"f", "a", "k", "e">>)] >>)] >>)

(***************************************************************************)
(* What the scaffolding tool may leave at <projectPath>/package.json.      *)
(***************************************************************************)
ToolManifest(kind, id) ==
  IF kind = "valid"
  THEN JSONstringify(ObjV(<< [k |-> S_name, v |-> StrV(id)] >>))
  ELSE IF kind = "tagged"
  THEN JSONstringify(ObjV(<< [k |-> S_guppy, v |-> ObjV(<< [k |-> S_id, v |-> StrV(<<"o", "l", "d">>)] >>)],
                             [k |-> S_name, v |-> StrV(id)] >>))
  ELSE <<Tok("{"), StrTok(S_name), Tok(":")>>

ToolOutcomes == {"none", "valid", "tagged", "truncated"}

vars == <<DISABLE, win32, parentExists, files, now, pc, args, trace, stdoutSent,
          stderrSent, stdoutRead, stderrRead, exitCode, readResult, writeResult,
          packageJson, prettyPrintedPackageJson, buildCall, colors, log, converterInput>>

procVars == <<stdoutSent, stderrSent, stdoutRead, stderrRead, exitCode>>
closureVars == <<readResult, writeResult, packageJson, prettyPrintedPackageJson>>
callerVars == <<buildCall, colors, log, converterInput>>
programVars == <<DISABLE, win32, parentExists, files, now, pc, args, trace, stdoutSent,
                 stderrSent, stdoutRead, stderrRead, exitCode, readResult, writeResult,
                 packageJson, prettyPrintedPackageJson>>
envVars == <<DISABLE, win32, callerVars>>

NoValue == ObjV(<<>>)
NoArgs == [projectName |-> <<>>, projectType |-> <<>>, projectIcon |-> <<>>]
NoFile == [exists |-> FALSE, text |-> <<>>]
NoBuilt == [done |-> FALSE, projectType |-> <<>>, path |-> <<>>,
            threw |-> FALSE, instructions |-> <<>>]

\* an entry of trace: ev names the callback or the system call
Event(ev, text, obj, argv) == [ev |-> ev, text |-> text, obj |-> obj, argv |-> argv]
Call(cb, text) == Event(cb, text, NoValue, <<>>)
Sys(op, argv) == Event(op, "", NoValue, argv)

IdOf(i) == ProjectId(args[i].projectName)
ProjectPathOf(i) == PathJoin(defaultParentPath, IdOf(i))
ManifestPathOf(i) == PathJoin(ProjectPathOf(i), S_packageJson)

ManifestPaths ==
  { PathJoin(PathJoin(defaultParentPath, ProjectId(n)), S_packageJson) : n \in NameInputs }

\* the state before any call, in a build whose toggle is one of toggles
InitWith(toggles) ==
  /\ DISABLE \in toggles
  /\ win32 \in BOOLEAN
  /\ parentExists \in BOOLEAN
  /\ files = [p \in ManifestPaths |-> NoFile]
  /\ now = 0
  /\ pc = [i \in Invocations |-> "idle"]
  /\ args = [i \in Invocations |-> NoArgs]
  /\ trace = [i \in Invocations |-> <<>>]
  /\ stdoutSent = [i \in Invocations |-> <<>>]
  /\ stderrSent = [i \in Invocations |-> <<>>]
  /\ stdoutRead = [i \in Invocations |-> 0]
  /\ stderrRead = [i \in Invocations |-> 0]
  /\ exitCode = [i \in Invocations |-> -1]
  /\ readResult = [i \in Invocations |-> [done |-> FALSE, err |-> FALSE, data |-> <<>>]]
  /\ writeResult = [i \in Invocations |-> [done |-> FALSE, err |-> FALSE]]
  /\ packageJson = [i \in Invocations |-> NoValue]
  /\ prettyPrintedPackageJson = [i \in Invocations |-> <<>>]
  /\ buildCall = NoBuilt
  /\ colors = [n \in NameInputs |-> {}]
  /\ log = <<>>
  /\ converterInput = <<>>

\* const DISABLE = false (line 20)
Init == InitWith({FALSE})

(***************************************************************************)
(* createProject, the synchronous part (lines 44-77).                      *)
(***************************************************************************)
EnsureParentTrace_AlwaysMkdir ==
  <<Sys("existsSync", <<defaultParentPath>>), Sys("mkdirSync", <<defaultParentPath>>),
    Call("onStatusUpdate", "Created parent directory")>>

EnsureParentTrace_Silent ==
  <<Sys("existsSync", <<defaultParentPath>>)>>
  \o (IF parentExists THEN <<>> ELSE <<Sys("mkdirSync", <<defaultParentPath>>)>>)

\* fs.existsSync(parentPath), fs.mkdirSync(parentPath) and the first status
EnsureParentTrace ==
  <<Sys("existsSync", <<defaultParentPath>>)>>
  \o (IF parentExists THEN <<>> ELSE <<Sys("mkdirSync", <<defaultParentPath>>)>>)
  \o <<Call("onStatusUpdate", "Created parent directory")>>

FixtureMode_Off == FALSE

\* if (DISABLE) (line 50)
FixtureMode == DISABLE

createProject(i, projectName, projectType, projectIcon) ==
  /\ pc[i] = "idle"
  /\ \A j \in Invocations : j < i => pc[j] # "idle"
  /\ args' = [args EXCEPT ![i] = [projectName |-> projectName,
                                  projectType |-> projectType,
                                  projectIcon |-> projectIcon]]
  /\ IF FixtureMode
     THEN /\ trace' = [trace EXCEPT ![i] =
                         <<Event("onComplete", "", FAKE_CRA_PROJECT, <<>>)>>]
          /\ pc' = [pc EXCEPT ![i] = "done"]
          /\ UNCHANGED parentExists
     ELSE LET id == ProjectId(projectName)
              projectPath == PathJoin(defaultParentPath, id)
              built == getBuildInstructions(projectType, projectPath, win32)
          IN /\ parentExists' = TRUE
             /\ IF built.threw
                THEN /\ trace' = [trace EXCEPT ![i] =
                                    EnsureParentTrace \o <<Call("throw", "Unrecognized project type")>>]
                     /\ pc' = [pc EXCEPT ![i] = "threw"]
                ELSE /\ trace' = [trace EXCEPT ![i] =
                                    EnsureParentTrace \o <<Sys("spawn", built.instructions)>>]
                     /\ pc' = [pc EXCEPT ![i] = "running"]
  /\ UNCHANGED <<envVars, files, now, procVars, closureVars>>

(***************************************************************************)
(* The child process (the scaffolding tool), as the host runs it.          *)
(***************************************************************************)
ChildWritesStdout(i) ==
  /\ pc[i] = "running"
  /\ Len(stdoutSent[i]) < MaxChunks
  /\ stdoutSent' = [stdoutSent EXCEPT ![i] = Append(@, StdoutChunks[Len(@) + 1])]
  /\ UNCHANGED <<envVars, parentExists, files, now, pc, args, trace, stderrSent,
                 stdoutRead, stderrRead, exitCode, closureVars>>

ChildWritesStderr(i) ==
  /\ pc[i] = "running"
  /\ Len(stderrSent[i]) < MaxChunks
  /\ stderrSent' = [stderrSent EXCEPT ![i] = Append(@, StderrChunks[Len(@) + 1])]
  /\ UNCHANGED <<envVars, parentExists, files, now, pc, args, trace, stdoutSent,
                 stdoutRead, stderrRead, exitCode, closureVars>>

\* the tool exits with a code, having left (or not) a manifest in its directory
ChildExits(i, code, outcome) ==
  /\ pc[i] = "running"
  /\ exitCode' = [exitCode EXCEPT ![i] = code]
  /\ pc' = [pc EXCEPT ![i] = "exited"]
  /\ files' = IF outcome = "none" THEN files
              ELSE [files EXCEPT ![ManifestPathOf(i)] =
                      [exists |-> TRUE, text |-> ToolManifest(outcome, IdOf(i))]]
  /\ UNCHANGED <<envVars, parentExists, now, args, trace, stdoutSent, stderrSent,
                 stdoutRead, stderrRead, closureVars>>

(***************************************************************************)
(* process.stdout.on('data', onStatusUpdate), process.stderr.on('data',    *)
(* onError) (lines 75-76): one 'data' event.                               *)
(***************************************************************************)
StdoutListener_OnError == "onError"

\* process.stdout.on('data', onStatusUpdate) (line 75)
StdoutListener == "onStatusUpdate"

\* process.stderr.on('data', onError) (line 76)
StderrListener == "onError"

OnStdoutData(i) ==
  /\ pc[i] \in {"running", "exited"}
  /\ stdoutRead[i] < Len(stdoutSent[i])
  /\ stdoutRead' = [stdoutRead EXCEPT ![i] = @ + 1]
  /\ trace' = [trace EXCEPT ![i] =
                 Append(@, Call(StdoutListener, stdoutSent[i][stdoutRead[i] + 1]))]
  /\ UNCHANGED <<envVars, parentExists, files, now, pc, args, stdoutSent, stderrSent,
                 stderrRead, exitCode, closureVars>>

OnStderrData(i) ==
  /\ pc[i] \in {"running", "exited"}
  /\ stderrRead[i] < Len(stderrSent[i])
  /\ stderrRead' = [stderrRead EXCEPT ![i] = @ + 1]
  /\ trace' = [trace EXCEPT ![i] =
                 Append(@, Call(StderrListener, stderrSent[i][stderrRead[i] + 1]))]
  /\ UNCHANGED <<envVars, parentExists, files, now, pc, args, stdoutSent, stderrSent,
                 stdoutRead, exitCode, closureVars>>

(***************************************************************************)
(* process.on('close', ...) (lines 80-83): 'close' is emitted once the     *)
(* child has exited and its output streams have ended.                     *)
(***************************************************************************)
OnClose_ZeroExitOnly(i) ==
  /\ pc[i] = "exited"
  /\ exitCode[i] = 0
  /\ stdoutRead[i] = Len(stdoutSent[i])
  /\ stderrRead[i] = Len(stderrSent[i])
  /\ trace' = [trace EXCEPT ![i] =
                 @ \o <<Call("onStatusUpdate", "Dependencies installed"),
                        Sys("readFile", <<ManifestPathOf(i)>>)>>]
  /\ pc' = [pc EXCEPT ![i] = "readPending"]
  /\ UNCHANGED <<envVars, parentExists, files, now, args, procVars, closureVars>>

\* the handler attached to 'exit', which may fire with output still unread
OnClose_OnExit(i) ==
  /\ pc[i] = "exited"
  /\ trace' = [trace EXCEPT ![i] =
                 @ \o <<Call("onStatusUpdate", "Dependencies installed"),
                        Sys("readFile", <<ManifestPathOf(i)>>)>>]
  /\ pc' = [pc EXCEPT ![i] = "readPending"]
  /\ UNCHANGED <<envVars, parentExists, files, now, args, procVars, closureVars>>

OnClose(i) ==
  /\ pc[i] = "exited"
  /\ stdoutRead[i] = Len(stdoutSent[i])
  /\ stderrRead[i] = Len(stderrSent[i])
  /\ trace' = [trace EXCEPT ![i] =
                 @ \o <<Call("onStatusUpdate", "Dependencies installed"),
                        Sys("readFile", <<ManifestPathOf(i)>>)>>]
  /\ pc' = [pc EXCEPT ![i] = "readPending"]
  /\ UNCHANGED <<envVars, parentExists, files, now, args, procVars, closureVars>>

(***************************************************************************)
(* fs.readFile(<projectPath>/package.json, 'utf8', callback) (line 83):    *)
(* the read itself, done by the host after the call was issued.            *)
(***************************************************************************)
ReadFileIO(i, ioError) ==
  /\ pc[i] = "readPending"
  /\ LET f == files[ManifestPathOf(i)]
         err == ioError \/ ~f.exists
     IN readResult' = [readResult EXCEPT ![i] =
                         [done |-> TRUE, err |-> err,
                          data |-> IF err THEN <<>> ELSE f.text]]
  /\ pc' = [pc EXCEPT ![i] = "readDone"]
  /\ UNCHANGED <<envVars, parentExists, files, now, args, trace, procVars,
                 writeResult, packageJson, prettyPrintedPackageJson>>

\* packageJson.guppy = { id, name, type, icon, color, createdAt } (lines 90-100)
GuppyMetadata(projectName, projectType, projectIcon, createdAt) ==
  ObjV(<< [k |-> S_id, v |-> StrV(ProjectId(projectName))],
          [k |-> S_name, v |-> StrV(projectName)],
          [k |-> S_type, v |-> StrV(projectType)],
          [k |-> S_icon, v |-> StrV(projectIcon)],
          [k |-> S_color, v |-> StrV(getColorForProject(projectName))],
          [k |-> S_createdAt, v |-> NumV(createdAt)] >>)

InjectGuppy_Replace(parsed, projectName, projectType, projectIcon, createdAt) ==
  ObjV(<< [k |-> S_guppy,
           v |-> GuppyMetadata(projectName, projectType, projectIcon, createdAt)] >>)

\* the manifest after the injection (lines 88-100)
InjectGuppy(parsed, projectName, projectType, projectIcon, createdAt) ==
  SetProp(parsed, S_guppy,
          GuppyMetadata(projectName, projectType, projectIcon, createdAt))

(***************************************************************************)
(* The callback of fs.readFile (lines 83-114).  Date.now() returns a value *)
(* not below the previous one.  JSON.parse throws on a text that is not    *)
(* JSON; the assignment of .guppy throws (strict mode) on a parsed value   *)
(* that is not an object.                                                  *)
(***************************************************************************)
\* if (err) (line 84)
ReadFailed(i) == readResult[i].err

ReadErrorChannel_OnError == "onError"

\* return console.error(err) (line 85)
ReadErrorChannel == "console.error"

\* the read callback with JSON.parse in a try/catch that falls back to {}
ReadFileCallback_CatchParse(i, dateNow) ==
  /\ pc[i] = "readDone"
  /\ dateNow >= now
  /\ \E parsed \in {JSONparse(readResult[i].data)} :
     IF ReadFailed(i)
     THEN /\ trace' = [trace EXCEPT ![i] = Append(@, Call(ReadErrorChannel, "read"))]
          /\ pc' = [pc EXCEPT ![i] = "readFailed"]
          /\ UNCHANGED <<now, packageJson, prettyPrintedPackageJson>>
     ELSE \E injected \in {InjectGuppy(IF parsed.ok /\ parsed.val.t = "obj"
                                        THEN parsed.val ELSE ObjV(<<>>),
                                        args[i].projectName, args[i].projectType,
                                        args[i].projectIcon, dateNow)} :
             /\ packageJson' = [packageJson EXCEPT ![i] = injected]
             /\ prettyPrintedPackageJson' =
                  [prettyPrintedPackageJson EXCEPT ![i] = JSONstringify(injected)]
             /\ now' = dateNow
             /\ trace' = [trace EXCEPT ![i] = Append(@, Sys("writeFile", <<ManifestPathOf(i)>>))]
             /\ pc' = [pc EXCEPT ![i] = "writePending"]
  /\ UNCHANGED <<envVars, parentExists, files, args, procVars, readResult, writeResult>>

ReadFileCallback(i, dateNow) ==
  /\ pc[i] = "readDone"
  /\ dateNow >= now
  /\ \E parsed \in {JSONparse(readResult[i].data)} :
     IF ReadFailed(i)
     THEN /\ trace' = [trace EXCEPT ![i] = Append(@, Call(ReadErrorChannel, "read"))]
          /\ pc' = [pc EXCEPT ![i] = "readFailed"]
          /\ UNCHANGED <<now, packageJson, prettyPrintedPackageJson>>
     ELSE IF ~parsed.ok \/ parsed.val.t # "obj"
     THEN /\ trace' = [trace EXCEPT ![i] = Append(@, Call("throw", "JSON.parse"))]
          /\ pc' = [pc EXCEPT ![i] = "parseThrew"]
          /\ UNCHANGED <<now, packageJson, prettyPrintedPackageJson>>
     ELSE \E injected \in {InjectGuppy(parsed.val, args[i].projectName,
                                        args[i].projectType, args[i].projectIcon, dateNow)} :
             /\ packageJson' = [packageJson EXCEPT ![i] = injected]
             /\ prettyPrintedPackageJson' =
                  [prettyPrintedPackageJson EXCEPT ![i] = JSONstringify(injected)]
             /\ now' = dateNow
             /\ trace' = [trace EXCEPT ![i] = Append(@, Sys("writeFile", <<ManifestPathOf(i)>>))]
             /\ pc' = [pc EXCEPT ![i] = "writePending"]
  /\ UNCHANGED <<envVars, parentExists, files, args, procVars, readResult, writeResult>>

(***************************************************************************)
(* fs.writeFile(path, text, callback) (lines 104-106), done by the host:   *)
(* the file is opened and truncated, then the text is written.             *)
(***************************************************************************)
WriteFileOpen_Locked(i, ioError) ==
  /\ pc[i] = "writePending"
  /\ \A j \in Invocations \ {i} :
       ProjectId(args[j].projectName) = ProjectId(args[i].projectName)
         => pc[j] \notin {"writePending", "writeOpened"}
  /\ IF ioError
     THEN /\ pc' = [pc EXCEPT ![i] = "writeDone"]
          /\ writeResult' = [writeResult EXCEPT ![i] = [done |-> TRUE, err |-> TRUE]]
          /\ UNCHANGED files
     ELSE /\ pc' = [pc EXCEPT ![i] = "writeOpened"]
          /\ files' = [files EXCEPT ![ManifestPathOf(i)] = [exists |-> TRUE, text |-> <<>>]]
          /\ UNCHANGED writeResult
  /\ UNCHANGED <<envVars, parentExists, now, args, trace, procVars, readResult,
                 packageJson, prettyPrintedPackageJson>>

WriteFileOpen(i, ioError) ==
  /\ pc[i] = "writePending"
  /\ IF ioError
     THEN /\ pc' = [pc EXCEPT ![i] = "writeDone"]
          /\ writeResult' = [writeResult EXCEPT ![i] = [done |-> TRUE, err |-> TRUE]]
          /\ UNCHANGED files
     ELSE /\ pc' = [pc EXCEPT ![i] = "writeOpened"]
          /\ files' = [files EXCEPT ![ManifestPathOf(i)] = [exists |-> TRUE, text |-> <<>>]]
          /\ UNCHANGED writeResult
  /\ UNCHANGED <<envVars, parentExists, now, args, trace, procVars, readResult,
                 packageJson, prettyPrintedPackageJson>>

WriteFileData(i, ioError) ==
  /\ pc[i] = "writeOpened"
  /\ pc' = [pc EXCEPT ![i] = "writeDone"]
  /\ writeResult' = [writeResult EXCEPT ![i] = [done |-> TRUE, err |-> ioError]]
  /\ files' = IF ioError THEN files
              ELSE [files EXCEPT ![ManifestPathOf(i)] =
                      [exists |-> TRUE, text |-> prettyPrintedPackageJson[i]]]
  /\ UNCHANGED <<envVars, parentExists, now, args, trace, procVars, readResult,
                 packageJson, prettyPrintedPackageJson>>

(***************************************************************************)
(* The callback of fs.writeFile (lines 107-112).                           *)
(***************************************************************************)
WriteFailed_Ignored(i) == FALSE

\* if (err) (line 108)
WriteFailed(i) == writeResult[i].err

WriteErrorChannel_OnError == "onError"

\* return console.error(err) (line 109)
WriteErrorChannel == "console.error"

WriteFileCallback_NoComplete(i) ==
  /\ pc[i] = "writeDone"
  /\ IF WriteFailed(i)
     THEN /\ trace' = [trace EXCEPT ![i] = Append(@, Call(WriteErrorChannel, "write"))]
          /\ pc' = [pc EXCEPT ![i] = "writeFailed"]
     ELSE /\ trace' = [trace EXCEPT ![i] = Append(@, Call("console.log", "written"))]
          /\ pc' = [pc EXCEPT ![i] = "done"]
  /\ UNCHANGED <<envVars, parentExists, files, now, args, procVars, closureVars>>

WriteFileCallback(i) ==
  /\ pc[i] = "writeDone"
  /\ IF WriteFailed(i)
     THEN /\ trace' = [trace EXCEPT ![i] = Append(@, Call(WriteErrorChannel, "write"))]
          /\ pc' = [pc EXCEPT ![i] = "writeFailed"]
     ELSE /\ trace' = [trace EXCEPT ![i] =
                         Append(@, Event("onComplete", "", packageJson[i], <<>>))]
          /\ pc' = [pc EXCEPT ![i] = "done"]
  /\ UNCHANGED <<envVars, parentExists, files, now, args, procVars, closureVars>>

\* any step of invocation i, of the program or of its host
StepOf(i) ==
  \/ \E n \in NameInputs, t \in TypeInputs, c \in IconInputs : createProject(i, n, t, c)
  \/ ChildWritesStdout(i)
  \/ ChildWritesStderr(i)
  \/ \E code \in ExitCodes, o \in ToolOutcomes : ChildExits(i, code, o)
  \/ OnStdoutData(i)
  \/ OnStderrData(i)
  \/ OnClose(i)
  \/ \E e \in BOOLEAN : ReadFileIO(i, e)
  \/ \E t \in 0..MaxClock : ReadFileCallback(i, t)
  \/ \E e \in BOOLEAN : WriteFileOpen(i, e)
  \/ \E e \in BOOLEAN : WriteFileData(i, e)
  \/ WriteFileCallback(i)

\* one invocation alone
Next ==
  \/ \E i \in Alone, n \in NameInputs, t \in TypeInputs, c \in IconInputs :
       createProject(i, n, t, c)
  \/ \E i \in Alone : ChildWritesStdout(i)
  \/ \E i \in Alone : ChildWritesStderr(i)
  \/ \E i \in Alone, code \in ExitCodes, o \in ToolOutcomes : ChildExits(i, code, o)
  \/ \E i \in Alone : OnStdoutData(i)
  \/ \E i \in Alone : OnStderrData(i)
  \/ \E i \in Alone : OnClose(i)
  \/ \E i \in Alone, e \in BOOLEAN : ReadFileIO(i, e)
  \/ \E i \in Alone, t \in 0..MaxClock : ReadFileCallback(i, t)
  \/ \E i \in Alone, e \in BOOLEAN : WriteFileOpen(i, e)
  \/ \E i \in Alone, e \in BOOLEAN : WriteFileData(i, e)
  \/ \E i \in Alone : WriteFileCallback(i)

Spec == Init /\ [][Next]_vars

(***************************************************************************)
(* Two invocations in flight at the same time, in real mode, on a host     *)
(* where the scaffolding tool exits silently with code 0.                  *)
(***************************************************************************)
InitConcurrent == Init /\ ~win32 /\ parentExists

NextConcurrent ==
  \/ \E i \in Invocations, n \in NameInputs, c \in IconInputs :
       createProject(i, n, S_createReactApp, c)
  \/ \E i \in Invocations, o \in {"none", "valid"} : ChildExits(i, 0, o)
  \/ \E i \in Invocations : OnClose(i)
  \/ \E i \in Invocations : ReadFileIO(i, FALSE)
  \/ \E i \in Invocations, t \in 0..MaxClock : ReadFileCallback(i, t)
  \/ \E i \in Invocations, e \in BOOLEAN : WriteFileOpen(i, e)
  \/ \E i \in Invocations : WriteFileData(i, FALSE)
  \/ \E i \in Invocations : WriteFileCallback(i)

SpecConcurrent == InitConcurrent /\ [][NextConcurrent]_vars

(***************************************************************************)
(* One invocation alone, in a build with the toggle either way.            *)
(***************************************************************************)
InitToggle == InitWith(BOOLEAN)

SpecToggle == InitToggle /\ [][Next]_vars

(***************************************************************************)
(* Reading the trace of an invocation.                                     *)
(***************************************************************************)
Positions(i, ev) == {p \in 1..Len(trace[i]) : trace[i][p].ev = ev}

StatusPositions(i, text) ==
  {p \in Positions(i, "onStatusUpdate") : trace[i][p].text = text}

Last(q) == q[Len(q)]

Min(S) == CHOOSE x \in S : \A y \in S : x <= y

Drained(i) ==
  stdoutRead[i] = Len(stdoutSent[i]) /\ stderrRead[i] = Len(stderrSent[i])

StderrTexts == {StderrChunks[k] : k \in 1..Len(StderrChunks)}
StdoutTexts == {StdoutChunks[k] : k \in 1..Len(StdoutChunks)}

\* every onError call so far delivered a chunk of the child's stderr
OnlyStderrOnError(i) ==
  /\ Cardinality(Positions(i, "onError")) = stderrRead[i]
  /\ \A p \in Positions(i, "onError") : trace[i][p].text \in StderrTexts

\* where an invocation stands once its 'close' handler has run
AfterClose == {"readPending", "readDone", "readFailed", "parseThrew", "writePending",
               "writeOpened", "writeDone", "writeFailed", "done"}

(***************************************************************************)
(* C1: in real mode onComplete is invoked at most once, and only after the *)
(* child process has closed (it exited and its streams were drained, the   *)
(* 'Dependencies installed' status was emitted), the read of the manifest  *)
(* succeeded and the rewrite of the manifest succeeded.                    *)
(***************************************************************************)
C1_OnCompleteOnlyAfterSuccess ==
  \A i \in Invocations :
    /\ Cardinality(Positions(i, "onComplete")) <= 1
    /\ \A p \in Positions(i, "onComplete") :
         /\ exitCode[i] # -1
         /\ Drained(i)
         /\ readResult[i].done /\ ~readResult[i].err
         /\ writeResult[i].done /\ ~writeResult[i].err
         /\ \E d, r, w \in 1..Len(trace[i]) :
              /\ d < r /\ r < w /\ w < p
              /\ trace[i][d] = Call("onStatusUpdate", "Dependencies installed")
              /\ trace[i][r].ev = "readFile"
              /\ trace[i][w].ev = "writeFile"

C1_Witness ==
  \E i \in Invocations : pc[i] = "done" /\ Cardinality(Positions(i, "onComplete")) = 1

(***************************************************************************)
(* C2: once the read of the manifest has failed, onComplete is not invoked,*)
(* the failure is reported on console.error and not through onError (every *)
(* onError call is a stderr chunk), and no write of the manifest is issued:*)
(* the file stays as the scaffolding tool left it.                         *)
(***************************************************************************)
C2_ReadFailureSilent ==
  \A i \in Invocations :
    (readResult[i].done /\ readResult[i].err) =>
      /\ pc[i] \in {"readDone", "readFailed"}
      /\ Positions(i, "onComplete") = {}
      /\ Positions(i, "writeFile") = {}
      /\ ~writeResult[i].done
      /\ OnlyStderrOnError(i)
      /\ pc[i] = "readFailed" => Last(trace[i]) = Call("console.error", "read")
      /\ \/ files[ManifestPathOf(i)] = NoFile
         \/ \E k \in ToolOutcomes \ {"none"} :
              files[ManifestPathOf(i)] = [exists |-> TRUE, text |-> ToolManifest(k, IdOf(i))]

C2_Witness ==
  \E i \in Invocations : pc[i] = "readFailed" /\ readResult[i].err /\ exitCode[i] # -1

(***************************************************************************)
(* C3: once the rewrite of the manifest has failed, onComplete is not      *)
(* invoked, the failure is reported on console.error and not through       *)
(* onError, and after the report the invocation is in a terminal state: no *)
(* step of it is possible, so no further callback fires.                   *)
(***************************************************************************)
C3_WriteFailureSilent ==
  \A i \in Invocations :
    (writeResult[i].done /\ writeResult[i].err) =>
      /\ pc[i] \in {"writeDone", "writeFailed"}
      /\ Positions(i, "onComplete") = {}
      /\ OnlyStderrOnError(i)
      /\ pc[i] = "writeFailed" =>
           /\ Last(trace[i]) = Call("console.error", "write")
           /\ ~ENABLED StepOf(i)

C3_Witness ==
  \E i \in Invocations : pc[i] = "writeFailed" /\ writeResult[i].err

(***************************************************************************)
(* C4: the exit code of the child is not inspected.  Whatever the code,    *)
(* the 'close' handler runs once the child has exited and its streams are  *)
(* drained; it emits 'Dependencies installed' and issues the read; a read  *)
(* that succeeded on a JSON object is followed by the injection and the    *)
(* rewrite; a rewrite that succeeded is followed by onComplete.            *)
(***************************************************************************)
C4_ExitCodeIgnored ==
  \A i \in Invocations :
    /\ (pc[i] = "exited" /\ Drained(i)) => ENABLED OnClose(i)
    /\ pc[i] \in AfterClose /\ exitCode[i] # -1 =>
         \E d \in StatusPositions(i, "Dependencies installed") :
           /\ d < Len(trace[i])
           /\ trace[i][d + 1] = Sys("readFile", <<ManifestPathOf(i)>>)
    /\ ( /\ readResult[i].done /\ ~readResult[i].err
         /\ JSONparse(readResult[i].data).ok
         /\ pc[i] # "readDone" ) =>
         /\ HasKey(packageJson[i], S_guppy)
         /\ Positions(i, "writeFile") # {}
    /\ pc[i] = "writeDone" => ENABLED WriteFileCallback(i)
    /\ (writeResult[i].done /\ ~writeResult[i].err /\ pc[i] # "writeDone") =>
         /\ pc[i] = "done"
         /\ Last(trace[i]) = Event("onComplete", "", packageJson[i], <<>>)

C4_Witness ==
  \E i \in Invocations :
    pc[i] = "done" /\ exitCode[i] = 1 /\ Positions(i, "onComplete") # {}

(***************************************************************************)
(* C5: in real mode, before onComplete there are at least two status       *)
(* updates: 'Created parent directory', emitted before the child is        *)
(* spawned, and after it 'Dependencies installed', emitted after the child *)
(* closed.                                                                 *)
(***************************************************************************)
C5_StatusesBeforeComplete ==
  \A i \in Invocations :
    \A p \in Positions(i, "onComplete") :
      \E c \in StatusPositions(i, "Created parent directory"),
         s \in Positions(i, "spawn"),
         d \in StatusPositions(i, "Dependencies installed") :
        /\ c < s /\ s < d /\ d < p
        /\ exitCode[i] # -1

C5_Witness ==
  \E i \in Invocations :
    /\ Positions(i, "onComplete") # {}
    /\ Cardinality(Positions(i, "onStatusUpdate")) >= 2
    /\ ~DISABLE

(***************************************************************************)
(* C6: on the success path the object passed to onComplete is the content  *)
(* written to the manifest file: parsing the written text gives back the   *)
(* object.  Its keys are those of the manifest read, in their order, with  *)
(* 'guppy' appended when it was absent; every other key has the value      *)
(* read; 'guppy' is { id, name, type, icon, color, createdAt } with id the *)
(* lower-cased slug of projectName, name, type and icon the inputs and     *)
(* color getColorForProject(projectName), a palette entry.                 *)
(***************************************************************************)
Keys(v) == [k \in 1..Len(v.o) |-> v.o[k].k]

Palette == {possibleProjectColors[k] : k \in 1..Len(possibleProjectColors)}

C6_CompleteManifestIsWritten ==
  \A i \in Invocations :
    pc[i] = "done" =>
      LET obj == Last(trace[i]).obj
          orig == JSONparse(readResult[i].data).val
          written == prettyPrintedPackageJson[i]
          g == Get(obj, S_guppy)
      IN /\ Last(trace[i]).ev = "onComplete"
         /\ files[ManifestPathOf(i)] = [exists |-> TRUE, text |-> written]
         /\ JSONparse(written).ok
         /\ JSONparse(written).val = obj
         /\ Keys(obj) = IF HasKey(orig, S_guppy) THEN Keys(orig)
                        ELSE Append(Keys(orig), S_guppy)
         /\ \A k \in 1..Len(orig.o) : orig.o[k].k # S_guppy => obj.o[k] = orig.o[k]
         /\ Keys(g) = <<S_id, S_name, S_type, S_icon, S_color, S_createdAt>>
         /\ Get(g, S_id) = StrV(toLowerCase(slug(args[i].projectName)))
         /\ Get(g, S_name) = StrV(args[i].projectName)
         /\ Get(g, S_type) = StrV(args[i].projectType)
         /\ Get(g, S_icon) = StrV(args[i].projectIcon)
         /\ Get(g, S_color) = StrV(getColorForProject(args[i].projectName))
         /\ Get(g, S_color).s \in Palette
         /\ Get(g, S_createdAt).t = "num" /\ Get(g, S_createdAt).n <= now

C6_Witness ==
  \E i \in Invocations :
    /\ pc[i] = "done"
    /\ LET orig == JSONparse(readResult[i].data).val IN
         /\ HasKey(orig, S_guppy)
         /\ Len(orig.o) = 2
         /\ Get(orig, S_guppy) # Get(Last(trace[i]).obj, S_guppy)

(***************************************************************************)
(* C7: a call with a project type outside { create-react-app, gatsby }     *)
(* throws 'Unrecognized project type' during the call, before a child is   *)
(* spawned: no child exists, no manifest is read or written, neither       *)
(* onComplete nor onError is invoked, and no step of the invocation is     *)
(* possible afterwards.                                                    *)
(***************************************************************************)
C7_UnrecognizedTypeThrows ==
  \A i \in Invocations :
    (pc[i] # "idle" /\ args[i].projectType \notin ProjectTypes) =>
      /\ pc[i] = "threw"
      /\ Last(trace[i]) = Call("throw", "Unrecognized project type")
      /\ \A ev \in {"spawn", "readFile", "writeFile", "onComplete", "onError"} :
           Positions(i, ev) = {}
      /\ exitCode[i] = -1 /\ stdoutSent[i] = <<>> /\ stderrSent[i] = <<>>
      /\ ~readResult[i].done /\ ~writeResult[i].done
      /\ files[ManifestPathOf(i)] = NoFile
      /\ ~ENABLED StepOf(i)

C7_Witness ==
  \E i \in Invocations : pc[i] = "threw" /\ args[i].projectType = S_vue

(***************************************************************************)
(* C8: with the toggle on, the call invokes onComplete once with           *)
(* FAKE_CRA_PROJECT within the call itself and does nothing else: no       *)
(* directory is created, no child is spawned, no file is read or written,  *)
(* onStatusUpdate and onError are never invoked, and no step of the        *)
(* invocation is possible afterwards.                                      *)
(***************************************************************************)
C8_FixtureState ==
  DISABLE =>
    \A i \in Invocations :
      /\ pc[i] \in {"idle", "done"}
      /\ pc[i] = "idle" => trace[i] = <<>>
      /\ pc[i] = "done" =>
           /\ trace[i] = <<Event("onComplete", "", FAKE_CRA_PROJECT, <<>>)>>
           /\ ~ENABLED StepOf(i)
      /\ exitCode[i] = -1 /\ stdoutSent[i] = <<>> /\ stderrSent[i] = <<>>
      /\ ~readResult[i].done /\ ~writeResult[i].done
      /\ \A path \in ManifestPaths : files[path] = NoFile

C8_FixtureStep ==
  DISABLE =>
    /\ parentExists' = parentExists
    /\ files' = files
    /\ \A i \in Invocations :
         (pc[i] = "idle" /\ pc'[i] # "idle") =>
           trace'[i] = <<Event("onComplete", "", FAKE_CRA_PROJECT, <<>>)>>

C8_FixtureOnly == [](C8_FixtureState) /\ [][C8_FixtureStep]_vars

C8_Witness ==
  \E i \in Invocations :
    DISABLE /\ pc[i] = "done" /\ ~parentExists /\ Positions(i, "onComplete") # {}

(***************************************************************************)
(* C9: the stdout chunks delivered to onStatusUpdate are, in order, the    *)
(* first chunks the child wrote on stdout, each once and unchanged, and    *)
(* none of them reaches onError; the same holds of stderr and onError.     *)
(* A chunk written and not yet delivered can be delivered, whichever       *)
(* stream it is on (no order between the streams), and when the 'close'    *)
(* handler has run every chunk written has been delivered.                 *)
(***************************************************************************)
Texts(q) == [k \in 1..Len(q) |-> q[k].text]

Delivered(i, cb, texts) ==
  Texts(SelectSeq(trace[i], LAMBDA e : e.ev = cb /\ e.text \in texts))

C9_ChunksForwarded ==
  \A i \in Invocations :
    /\ Delivered(i, "onStatusUpdate", StdoutTexts) = SubSeq(stdoutSent[i], 1, stdoutRead[i])
    /\ Delivered(i, "onError", StderrTexts) = SubSeq(stderrSent[i], 1, stderrRead[i])
    /\ Delivered(i, "onError", StdoutTexts) = <<>>
    /\ Delivered(i, "onStatusUpdate", StderrTexts) = <<>>
    /\ (pc[i] \in {"running", "exited"} /\ stdoutRead[i] < Len(stdoutSent[i]))
         => ENABLED OnStdoutData(i)
    /\ (pc[i] \in {"running", "exited"} /\ stderrRead[i] < Len(stderrSent[i]))
         => ENABLED OnStderrData(i)
    /\ (pc[i] \in AfterClose /\ exitCode[i] # -1) => Drained(i)

C9_Witness ==
  \E i \in Invocations :
    /\ stdoutRead[i] = 2 /\ stderrRead[i] = 2
    /\ Delivered(i, "onStatusUpdate", StdoutTexts) = <<"out-1", "out-2">>
    /\ Delivered(i, "onError", StderrTexts) = <<"err-1", "err-2">>
    /\ \E p, q \in 1..Len(trace[i]) :
         p < q /\ trace[i][p].text = "err-2" /\ trace[i][q].text = "out-1"

(***************************************************************************)
(* C10: two invocations whose names have the same slug spawn their tools   *)
(* on the same project directory and read and write the same manifest      *)
(* file; nothing holds the file operations of one back while the other is  *)
(* in the middle of its own; and when both have invoked onComplete the     *)
(* file holds the text one of them wrote, with the guppy metadata of that  *)
(* one only.  The witness is the race: both have invoked onComplete and    *)
(* the manifest one of them passed is not the content of the file.         *)
(***************************************************************************)
SpawnPath(i) == Last(trace[i][Min(Positions(i, "spawn"))].argv)

OnDisk(i) == JSONparse(files[ManifestPathOf(i)].text)

C10_UncoordinatedManifest ==
  \A i, j \in Invocations :
    (i # j /\ pc[i] # "idle" /\ pc[j] # "idle" /\ IdOf(i) = IdOf(j)) =>
      /\ ManifestPathOf(i) = ManifestPathOf(j)
      /\ SpawnPath(i) = SpawnPath(j)
      /\ pc[i] = "readPending" => ENABLED ReadFileIO(i, FALSE)
      /\ pc[i] = "writePending" => ENABLED WriteFileOpen(i, FALSE)
      /\ pc[i] = "writeOpened" => ENABLED WriteFileData(i, FALSE)
      /\ (pc[i] = "done" /\ pc[j] = "done") =>
           /\ files[ManifestPathOf(i)].text
                \in {prettyPrintedPackageJson[i], prettyPrintedPackageJson[j]}
           /\ OnDisk(i).ok
           /\ Get(OnDisk(i).val, S_guppy)
                \in {Get(Last(trace[i]).obj, S_guppy), Get(Last(trace[j]).obj, S_guppy)}

C10_Witness ==
  \E i, j \in Invocations :
    /\ i # j /\ IdOf(i) = IdOf(j)
    /\ pc[i] = "done" /\ pc[j] = "done"
    /\ Positions(i, "onComplete") # {} /\ Positions(j, "onComplete") # {}
    /\ OnDisk(i).val = Last(trace[j]).obj
    /\ OnDisk(i).val # Last(trace[i]).obj
    /\ Get(OnDisk(i).val, S_guppy) # Get(Last(trace[i]).obj, S_guppy)

(***************************************************************************)
(* getBuildInstructions called directly (it is exported, lines 138-154).   *)
(***************************************************************************)
SeqsUpTo(S, n) == UNION {[1..k -> S] : k \in 0..n}

PathInputs ==
  SeqsUpTo({"a", "/", " "}, MaxPathLen)
    \cup {PathJoin(defaultParentPath, ProjectId(n)) : n \in NameInputs}

CallGetBuildInstructions(projectType, path) ==
  /\ LET r == getBuildInstructions(projectType, path, win32) IN
       buildCall' = [done |-> TRUE, projectType |-> projectType, path |-> path,
                     threw |-> r.threw, instructions |-> r.instructions]
  /\ UNCHANGED <<programVars, colors, log, converterInput>>

NextBuild ==
  \E t \in TypeInputs, path \in PathInputs : CallGetBuildInstructions(t, path)

SpecBuild == Init /\ [][NextBuild]_vars

(***************************************************************************)
(* C11: for create-react-app and a path P getBuildInstructions returns the *)
(* platform-adapted 'npx' followed by exactly 'create-react-app', P; for   *)
(* gatsby, the platform-adapted 'npx' followed by exactly 'gatsby', 'new', *)
(* P; for any other type it throws and returns no sequence.                *)
(***************************************************************************)
C11_BuildInstructions ==
  buildCall.done =>
    LET platformNpx == IF win32 THEN S_npx \o S_cmd ELSE S_npx IN
    IF buildCall.projectType = S_createReactApp
    THEN /\ ~buildCall.threw
         /\ buildCall.instructions = <<platformNpx, S_createReactApp, buildCall.path>>
    ELSE IF buildCall.projectType = S_gatsby
    THEN /\ ~buildCall.threw
         /\ buildCall.instructions = <<platformNpx, S_gatsby, S_new, buildCall.path>>
    ELSE /\ buildCall.threw
         /\ buildCall.instructions = <<>>

C11_Witness ==
  /\ buildCall.done
  /\ buildCall.projectType = S_gatsby
  /\ win32
  /\ Len(buildCall.path) = MaxPathLen
  /\ Len(buildCall.instructions) = 4

(***************************************************************************)
(* getColorForProject called directly (it is exported, lines 130-136),     *)
(* while createProject invocations are in flight.                          *)
(***************************************************************************)
CallGetColorForProject(projectName) ==
  /\ colors' = [colors EXCEPT ![projectName] = @ \cup {getColorForProject(projectName)}]
  /\ UNCHANGED <<programVars, buildCall, log, converterInput>>

NextColor ==
  \/ NextConcurrent
  \/ \E n \in NameInputs : CallGetColorForProject(n)

SpecColor == InitConcurrent /\ [][NextColor]_vars

(***************************************************************************)
(* C12: every color getColorForProject returns is one of the eight entries *)
(* of possibleProjectColors, and all the calls for one name return the     *)
(* same color, whatever calls for other names and whatever createProject   *)
(* invocations (which call it for the guppy metadata) came in between.     *)
(***************************************************************************)
InjectedColor(i) == Get(Get(packageJson[i], S_guppy), S_color).s

S_nbsp == <<"&", "n", "b", "s", "p", ";">>
S_br == <<"<", "b", "r", " ", "/", ">">>

\* the line terminators among the characters of a log
LineTerminators == {"\n", "\r"}

LogInputs == SeqsUpTo({" ", "x", "\n", "\r"}, MaxLogLen)

\* .replace(/^[\ ]/gm, '&nbsp;&nbsp;'): with the m flag ^ matches at the start
\* of the string and after a line terminator
RECURSIVE ReplaceLeadingSpace(_, _)
ReplaceLeadingSpace(s, p) ==
  IF p > Len(s) THEN <<>>
  ELSE (IF s[p] = " " /\ (p = 1 \/ s[p - 1] \in LineTerminators)
        THEN S_nbsp \o S_nbsp
        ELSE <<s[p]>>)
       \o ReplaceLeadingSpace(s, p + 1)

\* .replace(/(\r\n|\r|\n)/g, '<br />')
RECURSIVE ReplaceLineBreaks(_, _)
ReplaceLineBreaks(s, p) ==
  IF p > Len(s) THEN <<>>
  ELSE IF s[p] = "\r" /\ p < Len(s) /\ s[p + 1] = "\n"
       THEN S_br \o ReplaceLineBreaks(s, p + 2)
       ELSE IF s[p] \in LineTerminators
            THEN S_br \o ReplaceLineBreaks(s, p + 1)
            ELSE <<s[p]>> \o ReplaceLineBreaks(s, p + 1)

ConverterInput(l) == ReplaceLineBreaks(ReplaceLeadingSpace(l, 1), 1)

\* logs.map(log => ...) for one log of the props
Render(l) ==
  /\ log' = l
  /\ converterInput' = ConverterInput(l)
  /\ UNCHANGED <<programVars, buildCall, colors>>

NextRender == \E l \in LogInputs : Render(l)

SpecRender == Init /\ [][NextRender]_vars

(***************************************************************************)
(* Reading a log and the text made of it, line by line.                    *)
(***************************************************************************)
StartsWith(s, p, pat) ==
  /\ p + Len(pat) - 1 <= Len(s)
  /\ \A k \in 1..Len(pat) : s[p + k - 1] = pat[k]

\* the pieces of s between the occurrences of pat
RECURSIVE SplitOn(_, _, _, _)
SplitOn(s, pat, p, cur) ==
  IF p > Len(s) THEN <<cur>>
  ELSE IF StartsWith(s, p, pat)
       THEN <<cur>> \o SplitOn(s, pat, p + Len(pat), <<>>)
       ELSE SplitOn(s, pat, p + 1, Append(cur, s[p]))

\* the lines of a log: \r\n, \r and \n each end a line
RECURSIVE LinesOf(_, _, _)
LinesOf(s, p, cur) ==
  IF p > Len(s) THEN <<cur>>
  ELSE IF StartsWith(s, p, <<"\r", "\n">>)
       THEN <<cur>> \o LinesOf(s, p + 2, <<>>)
       ELSE IF s[p] \in LineTerminators
            THEN <<cur>> \o LinesOf(s, p + 1, <<>>)
            ELSE LinesOf(s, p + 1, Append(cur, s[p]))

RECURSIVE DropLeading(_, _)
DropLeading(s, pat) ==
  IF pat # <<>> /\ StartsWith(s, 1, pat)
  THEN DropLeading(SubSeq(s, Len(pat) + 1, Len(s)), pat)
  ELSE s

(***************************************************************************)
(* C13: in the text handed to the converter every line break of the log    *)
(* (\r\n, \r or \n) is one '<br />' and none is left; the lines are those  *)
(* of the log, in which every leading run of spaces, whatever its length,  *)
(* has become '&nbsp;' sequences: no plain space is left in the leading    *)
(* indentation of a line, also of a line after the first (the spaces are   *)
(* replaced before the line breaks).                                       *)
(***************************************************************************)
C13_IndentationConverted ==
  LET outLines == SplitOn(converterInput, S_br, 1, <<>>)
      inLines == LinesOf(log, 1, <<>>)
  IN /\ Len(outLines) = Len(inLines)
     /\ \A k \in 1..Len(outLines) :
          LET rest == DropLeading(outLines[k], S_nbsp) IN
          /\ \A q \in 1..Len(outLines[k]) : outLines[k][q] \notin LineTerminators
          /\ rest = <<>> \/ rest[1] # " "
          /\ rest = DropLeading(inLines[k], <<" ">>)
          /\ (inLines[k] # <<>> /\ inLines[k][1] = " ") => StartsWith(outLines[k], 1, S_nbsp)

(***************************************************************************)
(* C14: leaving the chunks of the child aside, what an invocation has done *)
(* is a prefix of one fixed sequence, each step at most once: existsSync,  *)
(* mkdirSync (only when the parent directory did not exist), 'Created      *)
(* parent directory', spawn, 'Dependencies installed' (after the child     *)
(* exited and closed), readFile, writeFile, onComplete; a throw or a       *)
(* console.error can only end it.  After onComplete no step is possible    *)
(* and the manifest is as the write left it.                               *)
(***************************************************************************)
IsChunk(e) ==
  \/ e.ev = "onStatusUpdate" /\ e.text \in StdoutTexts
  \/ e.ev = "onError" /\ e.text \in StderrTexts

StepLabel(e) == IF e.ev = "onStatusUpdate" THEN e.text ELSE e.ev

StepsOf(q) ==
  LET own == SelectSeq(q, LAMBDA e : ~IsChunk(e)) IN
  [k \in 1..Len(own) |-> StepLabel(own[k])]

FixedOrder(mkdir) ==
  <<"existsSync">> \o (IF mkdir THEN <<"mkdirSync">> ELSE <<>>)
  \o <<"Created parent directory", "spawn", "Dependencies installed",
       "readFile", "writeFile", "onComplete">>

IsPrefix(a, b) == Len(a) <= Len(b) /\ a = SubSeq(b, 1, Len(a))

Endings == {"throw", "console.error"}

WithoutEnding(steps) ==
  IF steps # <<>> /\ Last(steps) \in Endings
  THEN SubSeq(steps, 1, Len(steps) - 1) ELSE steps

C14_StepsState ==
  \A i \in Invocations :
    LET steps == StepsOf(trace[i]) IN
    /\ \E mkdir \in BOOLEAN : IsPrefix(WithoutEnding(steps), FixedOrder(mkdir))
    /\ (pc[i] # "idle") = (steps # <<>>)
    /\ (\E k \in 1..Len(steps) : steps[k] = "spawn") = (pc[i] \notin {"idle", "threw"})
    /\ (\E k \in 1..Len(steps) : steps[k] = "Dependencies installed")
         => (exitCode[i] # -1 /\ Drained(i))
    /\ pc[i] = "done" =>
         /\ Last(steps) = "onComplete"
         /\ ~ENABLED StepOf(i)
         /\ files[ManifestPathOf(i)] = [exists |-> TRUE, text |-> prettyPrintedPackageJson[i]]

C14_StepsStep ==
  \A i \in Invocations :
    (pc[i] = "idle" /\ pc'[i] # "idle") =>
      /\ (\E k \in 1..Len(trace'[i]) : trace'[i][k].ev = "mkdirSync") = ~parentExists
      /\ parentExists'

C14_FixedOrder == [](C14_StepsState) /\ [][C14_StepsStep]_vars

C14_Witness ==
  \E i \in Invocations :
    /\ pc[i] = "done"
    /\ StepsOf(trace[i]) = FixedOrder(TRUE)
    /\ Len(trace[i]) > Len(FixedOrder(TRUE))

(***************************************************************************)
(* One invocation alone on a host whose event loop keeps running: while a  *)
(* 'data' event or the 'close' event is pending, a file operation is       *)
(* issued or a callback's operation is done, the loop eventually runs one  *)
(* of them.  Nothing makes the child write or exit.                        *)
(***************************************************************************)
EventLoopStep(i) ==
  \/ OnStdoutData(i)
  \/ OnStderrData(i)
  \/ OnClose(i)
  \/ \E e \in BOOLEAN : ReadFileIO(i, e)
  \/ \E t \in 0..MaxClock : ReadFileCallback(i, t)
  \/ \E e \in BOOLEAN : WriteFileOpen(i, e)
  \/ \E e \in BOOLEAN : WriteFileData(i, e)
  \/ WriteFileCallback(i)

EventLoopFairness == \A i \in Alone : WF_vars(EventLoopStep(i))

\* The platform and the parent directory play no part after the spawn: the
\* fair behaviours start on a POSIX host whose parent directory exists.
SpecFair == InitConcurrent /\ [][Next]_vars /\ EventLoopFairness

(***************************************************************************)
(* C15: once the child of an invocation has exited, eventually either      *)
(* onComplete has been invoked or the read failed, the content was not a   *)
(* JSON object or the write failed.  While the child runs the invocation   *)
(* leaves that state only by the exit of the child (no timeout, no         *)
(* cancellation), and onComplete has not been invoked.                     *)
(***************************************************************************)
ReadUnusable(i) ==
  /\ readResult[i].done
  /\ \/ readResult[i].err
     \/ ~JSONparse(readResult[i].data).ok
     \/ JSONparse(readResult[i].data).val.t # "obj"

C15_Outcome(i) ==
  \/ pc[i] = "done" /\ Positions(i, "onComplete") # {}
  \/ ReadUnusable(i)
  \/ writeResult[i].done /\ writeResult[i].err

C15_RunningStep ==
  \A i \in Invocations :
    pc[i] = "running" =>
      /\ Positions(i, "onComplete") = {}
      /\ pc'[i] # "running" => (pc'[i] = "exited" /\ exitCode'[i] # -1)

C15_EventuallyComplete ==
  /\ \A i \in Invocations : (pc[i] = "exited") ~> C15_Outcome(i)
  /\ [][C15_RunningStep]_vars

C15_Witness ==
  \E i \in Invocations :
    /\ pc[i] = "done" /\ Positions(i, "onComplete") # {}
    /\ ~ReadUnusable(i) /\ ~writeResult[i].err
    /\ stdoutRead[i] > 0

(***************************************************************************)
(* C16: when the manifest was read and its content is not valid JSON, the  *)
(* SyntaxError of JSON.parse leaves the read callback uncaught: no write   *)
(* is issued and the file keeps the content that was read, onComplete is   *)
(* not invoked, and the throw is the last thing the invocation does.       *)
(* onError may have been invoked before, only with chunks of the child's   *)
(* stderr and only before the 'close' handler ran; the parse error is not  *)
(* passed to it.                                                           *)
(***************************************************************************)
InvalidJsonRead(i) ==
  /\ readResult[i].done /\ ~readResult[i].err
  /\ ~JSONparse(readResult[i].data).ok

ManifestUntouched(i) ==
  /\ Positions(i, "writeFile") = {}
  /\ ~writeResult[i].done
  /\ files[ManifestPathOf(i)] = [exists |-> TRUE, text |-> readResult[i].data]

C16_ParseErrorUnreported ==
  \A i \in Invocations :
    InvalidJsonRead(i) =>
      /\ pc[i] \in {"readDone", "parseThrew"}
      /\ ManifestUntouched(i)
      /\ Positions(i, "onComplete") = {}
      /\ OnlyStderrOnError(i)
      /\ \A p \in Positions(i, "onError") :
           \A q \in StatusPositions(i, "Dependencies installed") : p < q
      /\ pc[i] = "parseThrew" =>
           /\ Last(trace[i]) = Call("throw", "JSON.parse")
           /\ ~ENABLED StepOf(i)

\* C16 as stated: onError is not invoked at all in such an invocation
C16_NoCallbackInvoked ==
  \A i \in Invocations :
    InvalidJsonRead(i) =>
      /\ ManifestUntouched(i)
      /\ Positions(i, "onComplete") = {}
      /\ Positions(i, "onError") = {}

C16_Witness ==
  \E i \in Invocations :
    /\ pc[i] = "parseThrew" /\ InvalidJsonRead(i)
    /\ Positions(i, "onError") # {}

(***************************************************************************)
(* C17: every chunk of the child's output is forwarded before the          *)
(* 'Dependencies installed' status: when that status has been emitted all  *)
(* the child wrote has been delivered, and every delivery stands before it *)
(* in the trace.  onComplete is the last entry of the trace in every state *)
(* that has it, so nothing (no onStatusUpdate, no onError) is invoked      *)
(* after it, and no step of the invocation is possible any more.           *)
(***************************************************************************)
ChunkDeliveries(i) ==
  {p \in Positions(i, "onStatusUpdate") \cup Positions(i, "onError") :
     trace[i][p].text \in StdoutTexts \cup StderrTexts}

C17_OnCompleteLast ==
  \A i \in Invocations :
    /\ \A q \in StatusPositions(i, "Dependencies installed") :
         /\ Drained(i)
         /\ Cardinality(ChunkDeliveries(i)) = Len(stdoutSent[i]) + Len(stderrSent[i])
         /\ \A p \in ChunkDeliveries(i) : p < q
    /\ \A c \in Positions(i, "onComplete") :
         /\ c = Len(trace[i])
         /\ pc[i] = "done"
         /\ \A q \in StatusPositions(i, "Dependencies installed") : q < c
         /\ ~ENABLED StepOf(i)

C17_Witness ==
  \E i \in Invocations :
    /\ pc[i] = "done" /\ Positions(i, "onComplete") = {Len(trace[i])}
    /\ Positions(i, "onError") # {}
    /\ \E q \in StatusPositions(i, "Dependencies installed") :
         q - 1 \in ChunkDeliveries(i) /\ trace[i][q - 1].ev = "onStatusUpdate"

====
